---- MODULE Spec2Model ----
(***************************************************************************)
(* "ML on the Fly": the generate / validate / repair pipeline of           *)
(* src/ml-on-the-fly/model_generator.py (ModelGenerator) and the session   *)
(* harness of src/ml-on-the-fly/ml_service.py (MLService).                 *)
(*                                                                         *)
(* The specifications share the variables:                                 *)
(*   GenSpec  a ModelGenerator(max_retries = N) used directly              *)
(*   Spec     one MLService session (its ModelGenerator has the default N) *)
(*   NetSpec  GenSpec with providers that may never answer                 *)
(*   ValSpec  _validate_code_structure called directly                     *)
(*   ApiSpec  the route handlers of src/ml-on-the-fly/api.py               *)
(*   HarnessSpec  train_model of ml_service.py and of its copy in          *)
(*            src/tools/interactive_ml_pipeline.py, on an installed model  *)
(*   BudgetSpec   generate_model calls with the provider calls counted      *)
(***************************************************************************)
EXTENDS Integers, Sequences, FiniteSets, TLC

\* ---------------------------------------------------------------- bounds
\* largest max_retries a directly constructed ModelGenerator is given
MaxRetriesBound == 3

\* how often one text is handed to _validate_code_structure directly
MaxChecks == 2

\* how many clients send requests to the API
NumClients == 2

\* default of ModelGenerator.__init__(max_retries=3)
DefaultMaxRetries == 3

\* ------------------------------------------------------------- constants
\* self.model_name and self.gemini_model
model_name == "claude-3-7-sonnet-latest"
gemini_model == "gemini-1.5-pro"
NoModel == "None"

\* self.required_methods, in list order
required_methods ==
    << "__init__", "fit_preprocessing", "preprocess_data", "train",
       "predict", "evaluate", "get_feature_importance" >>

RequiredSet == { required_methods[i] : i \in 1..Len(required_methods) }

\* ------------------------------------------------- messages and sources
\* An error text: str(exception) or a validation reason.  tag is the fixed
\* part of the text, names the method names it lists, n a number it embeds.
Err(tag, names, n) == [tag |-> tag, names |-> names, n |-> n]

\* Python None where a reason / message is expected
NoReason == Err("None", {}, 0)

\* A source text, described by what ast.parse, ast.walk and exec make of it:
\*   parse     "ok" | "syntax" (ast.parse raises SyntaxError with its text)
\*             | "crash" (the validator itself raises: e.text is None, or
\*               ast.parse raises something other than SyntaxError)
\*   hasClass  a ClassDef named DynamicModel is found by ast.walk
\*   methods   the FunctionDef names directly in that class body
\*   indirect  the required names that class gets in another way: async def,
\*             an assignment, a def nested in an if, a base class
\*   outside   the required names the text defines by def somewhere else: at
\*             module level, inside a method, in another or a nested class
\*   run       "ok" | "exec_raises" | "no_attr" (module has no DynamicModel)
\*             | "ctor_raises"
\*   attrs     the required names hasattr finds on the instance
\*             DynamicModel() yields
\*   callables the names among attrs whose value is callable
Src(parse, hasClass, methods, indirect, outside, run, attrs, callables) ==
    [parse |-> parse, hasClass |-> hasClass, methods |-> methods,
     indirect |-> indirect, outside |-> outside, run |-> run, attrs |-> attrs,
     callables |-> callables]

\* no source (Python None / the empty string where a source is expected):
\* the empty text parses and runs, and declares nothing
NoCode == Src("None", FALSE, {}, {}, {}, "no_attr", {}, {})

\* complete and working
GoodSrc == Src("ok", TRUE, RequiredSet, {}, {}, "ok", RequiredSet, RequiredSet)
\* declares every method, but __init__ rebinds train and evaluate to data
FragileSrc ==
    Src("ok", TRUE, RequiredSet, {}, {}, "ok", RequiredSet,
        RequiredSet \ {"train", "evaluate"})
\* does not parse
SyntaxSrc == Src("syntax", FALSE, {}, {}, {}, "exec_raises", {}, {})
\* parses, class present, evaluate not declared
MissingSrc ==
    Src("ok", TRUE, RequiredSet \ {"evaluate"}, {}, {}, "ok",
        RequiredSet \ {"evaluate"}, RequiredSet \ {"evaluate"})
\* parses, no class DynamicModel
NoClassSrc == Src("ok", FALSE, {}, {}, {}, "no_attr", {}, {})
\* makes the validator raise (for example a NUL byte in the text)
CrashSrc == Src("crash", FALSE, {}, {}, {}, "exec_raises", {}, {})

\* what a provider may send back
ProviderOutputs == {GoodSrc, FragileSrc, SyntaxSrc, MissingSrc, CrashSrc}

\* one _call_llm outcome: the extracted code, or an exception
Responses ==
    { [raises |-> FALSE, code |-> c] : c \in ProviderOutputs }
    \cup { [raises |-> TRUE, code |-> NoCode] }

\* ------------------------------------------------------------ validator
\* (mutant) the reason stops at one missing name
MutValidateFirstMissing(code) ==
    IF code.parse = "syntax"
    THEN Err("Syntax error", {}, 0)
    ELSE IF ~code.hasClass
    THEN Err("DynamicModel class definition not found.", {}, 0)
    ELSE LET missing_methods == RequiredSet \ code.methods
         IN  IF missing_methods # {}
             THEN Err("DynamicModel class is missing required methods",
                      {CHOOSE m \in missing_methods : TRUE}, 0)
             ELSE NoReason

\* (mutant) the class is searched with ast.walk, so nested defs count
MutValidateNestedDefs(code) ==
    IF code.parse = "syntax"
    THEN Err("Syntax error", {}, 0)
    ELSE IF ~code.hasClass
    THEN Err("DynamicModel class definition not found.", {}, 0)
    ELSE LET missing_methods == RequiredSet \ (code.methods \cup code.outside)
         IN  IF missing_methods # {}
             THEN Err("DynamicModel class is missing required methods", missing_methods, 0)
             ELSE NoReason

\* (mutant) a method counts only if the running instance can call it
MutValidateLiveMethods(code) ==
    IF code.parse = "syntax"
    THEN Err("Syntax error", {}, 0)
    ELSE IF ~code.hasClass
    THEN Err("DynamicModel class definition not found.", {}, 0)
    ELSE LET missing_methods == RequiredSet \ (code.methods \cap code.callables)
         IN  IF missing_methods # {}
             THEN Err("DynamicModel class is missing required methods", missing_methods, 0)
             ELSE NoReason

\* _validate_code_structure when it returns: None (NoReason) or the reason
validate_code_structure(code) ==
    IF code.parse = "syntax"
    THEN Err("Syntax error", {}, 0)
    ELSE IF ~code.hasClass
    THEN Err("DynamicModel class definition not found.", {}, 0)
    ELSE LET missing_methods == RequiredSet \ code.methods
         IN  IF missing_methods # {}
             THEN Err("DynamicModel class is missing required methods", missing_methods, 0)
             ELSE NoReason

\* _validate_code_structure raises instead of returning
ValidatorRaises(code) == code.parse = "crash"

\* (mutant) the aggressive content checks that the source has disabled are
\* on and refuse some text that the structural check lets through
MutAggressiveFinalCheck(code) ==
    validate_code_structure(code) = NoReason /\ code.callables = code.attrs

\* _final_code_verification: True iff the structural check returns None
final_code_verification(code) == validate_code_structure(code) = NoReason

\* --------------------------------------------------------------- prompts
Prompt(kind, code, error) == [kind |-> kind, code |-> code, error |-> error]

\* _create_model_generation_prompt (the dataset text is not modelled)
generation_prompt == Prompt("generate", NoCode, NoReason)

\* the prompt="" refine_model_code passes (unused when refining)
EmptyPrompt == Prompt("empty", NoCode, NoReason)

\* _create_refinement_prompt: embeds the error text and the code verbatim
create_refinement_prompt(code, error) == Prompt("refine", code, error)

\* ------------------------------------------------------- loader (pure part)
\* a live instance (the ghost src names the text it was built from);
\* NoInstance is Python None
Instance(code) == [src |-> code]
NoInstance == Instance(NoCode)

\* results of a call: a value, or an exception with its text
Returned(code, source) ==
    [kind |-> "return", code |-> code, source |-> source, error |-> NoReason]
Raised(error) ==
    [kind |-> "raise", code |-> NoCode, source |-> NoModel, error |-> error]
NoResult ==
    [kind |-> "None", code |-> NoCode, source |-> NoModel, error |-> NoReason]

\* (mutant) only hasattr is asked
MutBadMethods(code) ==
    { i \in 1..Len(required_methods) : required_methods[i] \notin code.attrs }

\* indexes of the required names the live instance lacks or has non-callable:
\* not hasattr(model, m) or not callable(getattr(model, m))
BadMethods(code) ==
    { i \in 1..Len(required_methods) :
        \/ required_methods[i] \notin code.attrs
        \/ required_methods[i] \notin code.callables }

Least(S) == CHOOSE i \in S : \A j \in S : i <= j

\* (mutant) the live method check is skipped
MutMethodCheckError(code) == NoReason

\* the for loop over required_methods: raises at the first bad name
MethodCheckError(code) ==
    IF BadMethods(code) = {}
    THEN NoReason
    ELSE Err("Instantiated model is missing required method or it's not callable",
             {required_methods[Least(BadMethods(code))]}, 0)

\* instantiate_model after the final verification: exec, hasattr, construct,
\* check the methods.  Returned(code, ..) stands for the instance of code.
LoadModel(code) ==
    IF code.run = "exec_raises" THEN Raised(Err("exec raised", {}, 0))
    ELSE IF code.run = "no_attr"
    THEN Raised(Err("Generated code does not contain a DynamicModel class after execution.", {}, 0))
    ELSE IF code.run = "ctor_raises" THEN Raised(Err("DynamicModel() raised", {}, 0))
    ELSE IF MethodCheckError(code) # NoReason THEN Raised(MethodCheckError(code))
    ELSE Returned(code, NoModel)

\* the error text instantiate_model hands to its one last refinement
FinalCheckMessage == Err("Final code verification check failed.", {}, 0)

\* the meter on _call_llm at zero, switched off and on
MeterOff == [on |-> FALSE, calls |-> 0]
MeterOn == [on |-> TRUE, calls |-> 0]

VARIABLES
    max_retries,        \* ModelGenerator.max_retries
    last_used_model,    \* ModelGenerator.last_used_model
    pc,                 \* position in _attempt_code_generation_and_validation
    attempt,            \* the for-loop index
    prompt,             \* parameter prompt
    is_refinement,      \* parameter / local is_refinement
    original_code_for_refinement,
    error_for_refinement,
    current_model_name, \* local current_model_name
    ret,                \* what the last loop invocation returned or raised
    log,                \* history: the _call_llm calls of this invocation
    ctx,                \* the call in progress
    inst_code,          \* instantiate_model's parameter model_code
    inst_ret,           \* what the last instantiate_model returned or raised
    df,                 \* CSVHandler.df (the dataset held)
    data_summary,       \* CSVHandler.data_summary (the dataset it describes)
    target_column,      \* MLService.target_column
    problem_type,       \* MLService.problem_type
    dynamic_model,      \* MLService.dynamic_model
    model_code,         \* MLService.model_code
    model_source,       \* MLService.model_source
    is_trained,         \* MLService.is_trained
    training_summary,   \* MLService.training_summary
    result,             \* what the MLService operation in progress returned
    invoked,            \* history: model methods that operation invoked
    raised,             \* history: those of them that raised
    ever_trained,       \* history: some train_model call returned success
    instance_state,     \* history: how far train_model has taken the current
                        \* dynamic_model: "new", "preprocessed", "trained",
                        \* "retrain_failed" (a call failed after one succeeded)
    checked_code,       \* the argument of direct _validate_code_structure calls
    checks,             \* history: what each of those calls returned or raised
    client,             \* the API client whose request is being served (0: none)
    service_class,      \* the module the MLService class is taken from:
                        \* "ml_service" (src/ml-on-the-fly) or "pipeline"
                        \* (src/tools/interactive_ml_pipeline.py)
    meter               \* history: a meter on _call_llm, [on, calls]; when
                        \* on, calls is the number of provider calls that
                        \* the MLService operation in progress has made

genVars == << max_retries, last_used_model, pc, attempt, prompt, is_refinement,
              original_code_for_refinement, error_for_refinement,
              current_model_name, ret, log, ctx, inst_code, inst_ret >>

loopLocals == << attempt, prompt, is_refinement, original_code_for_refinement,
                 error_for_refinement >>

svcVars == << df, data_summary, target_column, problem_type, dynamic_model,
              model_code, model_source, is_trained, training_summary, result,
              invoked, raised, ever_trained, instance_state >>

\* state of the direct validator calls and of the HTTP front end
frontVars == << checked_code, checks, client, service_class >>

sideVars == << frontVars, meter >>

vars == << genVars, svcVars, sideVars >>

\* ------------------------------------------------------- the retry loop
\* entry of _attempt_code_generation_and_validation
StartLoop(p, refine, code, error) ==
    /\ pc' = "round"
    /\ attempt' = 0
    /\ prompt' = p
    /\ is_refinement' = refine
    /\ original_code_for_refinement' = code
    /\ error_for_refinement' = error
    /\ current_model_name' = model_name
    /\ ret' = NoResult
    /\ log' = << >>

\* (mutant) one round too many: range(self.max_retries + 1)
MutRoundsLeft(a) == a <= max_retries

\* for attempt in range(self.max_retries)
RoundsLeft(a) == a < max_retries

\* (mutant) the name is not reset at the top of the round
MutRoundStartModel(cur) == cur

\* current_model_name = self.model_name at the top of every round
RoundStartModel(cur) == model_name

\* (mutant) the fallback branch keeps the primary's name
MutFallbackModel == model_name

\* current_model_name = self.gemini_model in the fallback branch
FallbackModel == gemini_model

\* (mutant) the fallback is tried after every failed primary attempt
MutFallbackAfterRejection(status) == status # "valid"

\* (mutant) the except clause forgets to set the flag
MutUseGeminiFallback(status) == FALSE

\* use_gemini_fallback: False at the top of the round, True in the except
UseGeminiFallback(status) == status = "raised"

\* (mutant) the fallback branch always sends the plain prompt
MutPlainPromptInFallback ==
    IF is_refinement /\ pc # "fallback"
    THEN create_refinement_prompt(original_code_for_refinement, error_for_refinement)
    ELSE prompt

\* (mutant) the plain prompt is sent again when refining
MutCurrentPrompt == prompt

\* the prompt of a call: refinement of the kept code and error, or the plain one
CurrentPrompt ==
    IF is_refinement
    THEN create_refinement_prompt(original_code_for_refinement, error_for_refinement)
    ELSE prompt

\* (mutant) the validator is lenient once a round has failed
MutJudge(resp) ==
    IF resp.raises
    THEN [status |-> "raised", reason |-> Err("API request failed", {}, 0)]
    ELSE IF ValidatorRaises(resp.code)
    THEN [status |-> "raised", reason |-> Err("validator raised", {}, 0)]
    ELSE IF validate_code_structure(resp.code) = NoReason \/ attempt > 0
    THEN [status |-> "valid", reason |-> NoReason]
    ELSE [status |-> "invalid", reason |-> validate_code_structure(resp.code)]

\* what the try block makes of one _call_llm outcome
Judge(resp) ==
    IF resp.raises
    THEN [status |-> "raised", reason |-> Err("API request failed", {}, 0)]
    ELSE IF ValidatorRaises(resp.code)
    THEN [status |-> "raised", reason |-> Err("validator raised", {}, 0)]
    ELSE IF validate_code_structure(resp.code) = NoReason
    THEN [status |-> "valid", reason |-> NoReason]
    ELSE [status |-> "invalid", reason |-> validate_code_structure(resp.code)]

\* the model _call_llm really asks: with is_gemini the URL names
\* self.gemini_model whatever name was passed, else the payload names it
CalledModel(name, is_gemini) == IF is_gemini THEN gemini_model ELSE name

LogEntry(name, is_gemini, resp) ==
    [provider |-> CalledModel(name, is_gemini), is_gemini |-> is_gemini,
     round |-> attempt, prompt |-> CurrentPrompt,
     code |-> resp.code, status |-> Judge(resp).status,
     reason |-> Judge(resp).reason]

\* (mutant) the name is recorded as soon as the provider has answered
MutUsedModel(status, model, last) == model

\* self.last_used_model after a call: assigned only next to the return
UsedModel(status, model, last) == IF status = "valid" THEN model ELSE last

\* the meter after one more _call_llm
Metered(m) == IF m.on THEN [m EXCEPT !.calls = @ + 1] ELSE m

\* the branches after validation, the same for both providers; elsePc is
\* where control goes when neither return nor continue is taken
AfterCall(model, is_gemini, resp, elsePc) ==
    /\ log' = Append(log, LogEntry(model, is_gemini, resp))
    /\ current_model_name' = model
    /\ meter' = Metered(meter)
    /\ UNCHANGED << max_retries, frontVars, prompt, ctx, inst_code, inst_ret, svcVars >>
    /\ last_used_model' = UsedModel(Judge(resp).status, model, last_used_model)
    /\ IF Judge(resp).status = "valid"
       THEN /\ ret' = Returned(resp.code, model)
            /\ pc' = "returned"
            /\ UNCHANGED << attempt, is_refinement, original_code_for_refinement,
                            error_for_refinement >>
       ELSE IF Judge(resp).status = "invalid" /\ ~is_refinement
       THEN \* keep the code and the reason, continue with the next attempt
            /\ original_code_for_refinement' = resp.code
            /\ error_for_refinement' = Judge(resp).reason
            /\ is_refinement' = TRUE
            /\ attempt' = attempt + 1
            /\ pc' = "round"
            /\ UNCHANGED ret
       ELSE /\ pc' = elsePc
            /\ UNCHANGED << ret, attempt, is_refinement,
                            original_code_for_refinement, error_for_refinement >>

\* the try block of a round: the call to the primary provider
PrimaryCall ==
    /\ pc = "round"
    /\ RoundsLeft(attempt)
    /\ \E resp \in Responses :
         AfterCall(RoundStartModel(current_model_name), FALSE, resp,
                   IF UseGeminiFallback(Judge(resp).status) THEN "fallback" ELSE "sleep")

\* if use_gemini_fallback: the call to the fallback provider
FallbackCall ==
    /\ pc = "fallback"
    /\ \E resp \in Responses : AfterCall(FallbackModel, TRUE, resp, "sleep")

\* time.sleep(2) at the end of a failed round
Sleep ==
    /\ pc = "sleep"
    /\ pc' = "round"
    /\ attempt' = attempt + 1
    /\ UNCHANGED << max_retries, sideVars, last_used_model, prompt, is_refinement,
                    original_code_for_refinement, error_for_refinement,
                    current_model_name, ret, log, ctx, inst_code, inst_ret,
                    svcVars >>

\* the text of the exception raised after the loop
ExhaustedError == Err("Failed to generate valid code after attempts.", {}, max_retries)

\* raise Exception(...) once the for loop is over
Exhausted ==
    /\ pc = "round"
    /\ ~RoundsLeft(attempt)
    /\ pc' = "raised"
    /\ ret' = Raised(ExhaustedError)
    /\ UNCHANGED << max_retries, sideVars, last_used_model, loopLocals, current_model_name,
                    log, ctx, inst_code, inst_ret, svcVars >>

LoopStep == PrimaryCall \/ FallbackCall \/ Sleep \/ Exhausted

LoopOver == pc \in {"returned", "raised"}

\* -------------------------------------------- ModelGenerator, used directly
\* inputs a caller may hand to refine_model_code / instantiate_model
RefineCodes == {FragileSrc, MissingSrc}
RefineErrors == {Err("caller error", {}, 0)}
InstantiateCodes == {GoodSrc, FragileSrc, MissingSrc, NoClassSrc, CrashSrc}

\* generate_model_code: the loop on the generation prompt
GenerateModelCode ==
    /\ ctx = "idle"
    /\ ctx' = "generate_model_code"
    /\ StartLoop(generation_prompt, FALSE, NoCode, NoReason)
    /\ UNCHANGED << max_retries, sideVars, last_used_model, inst_code, inst_ret, svcVars >>

\* refine_model_code(model_code, error_message)
RefineModelCode ==
    /\ ctx = "idle"
    /\ ctx' = "refine_model_code"
    /\ \E code \in RefineCodes, error \in RefineErrors :
         StartLoop(EmptyPrompt, TRUE, code, error)
    /\ UNCHANGED << max_retries, sideVars, last_used_model, inst_code, inst_ret, svcVars >>

\* the frame of a finished call is dropped: locals and history are gone
ClearFrames ==
    /\ pc' = "idle"
    /\ attempt' = 0
    /\ prompt' = EmptyPrompt
    /\ is_refinement' = FALSE
    /\ original_code_for_refinement' = NoCode
    /\ error_for_refinement' = NoReason
    /\ current_model_name' = model_name
    /\ ret' = NoResult
    /\ log' = << >>
    /\ inst_code' = NoCode
    /\ inst_ret' = NoResult

\* generate_model_code / refine_model_code / instantiate_model hand their
\* result to the caller
ReturnToCaller ==
    /\ \/ ctx \in {"generate_model_code", "refine_model_code"} /\ LoopOver
       \/ ctx = "instantiate_done"
    /\ ctx' = "idle"
    /\ ClearFrames
    /\ UNCHANGED << max_retries, sideVars, last_used_model, svcVars >>

\* marks a call of instantiate_model that has to refine before it can load
NeedsRefinement ==
    [kind |-> "refine", code |-> NoCode, source |-> NoModel, error |-> FinalCheckMessage]

\* instantiate_model(model_code) up to its first final verification:
\* verified code is loaded at once, rejected code goes to one refinement
InstantiateStart(code) ==
    IF ValidatorRaises(code) THEN Raised(Err("validator raised", {}, 0))
    ELSE IF final_code_verification(code) THEN LoadModel(code)
    ELSE NeedsRefinement

InstantiateModel ==
    /\ ctx = "idle"
    /\ \E code \in InstantiateCodes :
         IF InstantiateStart(code) = NeedsRefinement
         THEN /\ ctx' = "instantiate_model"
              /\ inst_code' = code
              /\ inst_ret' = NoResult
              /\ StartLoop(EmptyPrompt, TRUE, code, FinalCheckMessage)
              /\ UNCHANGED << max_retries, sideVars, last_used_model >>
         ELSE /\ inst_ret' = InstantiateStart(code)
              /\ inst_code' = code
              /\ ctx' = "instantiate_done"
              /\ UNCHANGED << max_retries, sideVars, last_used_model, pc, loopLocals,
                              current_model_name, ret, log >>
    /\ UNCHANGED svcVars

\* (mutant) an exhausted refinement is reported as a failed verification
MutAfterFinalRefinement(r) ==
    IF r.kind = "raise" \/ ~final_code_verification(r.code)
    THEN Raised(Err("Generated code failed final verification checks even after targeted refinement.", {}, 0))
    ELSE LoadModel(r.code)

\* instantiate_model once its refinement is over: the loop's exception
\* propagates, refined code is verified again and loaded
AfterFinalRefinement(r) ==
    IF r.kind = "raise" THEN r
    ELSE IF ~final_code_verification(r.code)
    THEN Raised(Err("Generated code failed final verification checks even after targeted refinement.", {}, 0))
    ELSE LoadModel(r.code)

InstantiateResume ==
    /\ ctx = "instantiate_model"
    /\ LoopOver
    /\ inst_ret' = AfterFinalRefinement(ret)
    /\ ctx' = "instantiate_done"
    /\ UNCHANGED << max_retries, sideVars, last_used_model, pc, loopLocals,
                    current_model_name, ret, log, inst_code, svcVars >>

\* ------------------------------------------------------------- MLService
\* Python None for a name (column, problem type, dataset)
None == "None"

\* file contents: text read_csv rejects, and two datasets
Files == {"garbage", "A", "B"}

\* what clients upload: also a header line y without data lines "E"
\* (read_csv yields an empty frame with that column), and a file "M" that
\* read_csv loads but whose profile cannot be computed (a call of
\* _analyze_data raises, for example MemoryError when describe() copies
\* the numeric columns of a large file)
Uploads == Files \cup {"E", "M"}

\* pd.read_csv returns a frame
Parses(file) == file # "garbage"

\* _analyze_data gets to the end
Analyses(file) == file # "M"

\* list(df.columns) of a dataset
Columns(d) ==
    IF d \in {"A", "M"} THEN {"x", "y"} ELSE IF d \in {"B", "E"} THEN {"y"} ELSE {}

\* df.shape[0] of a dataset, the num_rows of its summary
NumRows(d) == IF d \in {"A", "B", "M"} THEN 2 ELSE 0

\* suggest_problem_type: x is numeric with many values, y is not
suggest_problem_type(d, col) ==
    IF d = None \/ col \notin Columns(d) THEN "unknown"
    ELSE IF col = "x" THEN "regression" ELSE "classification"

\* what a caller may pass
TargetArgs == {"x", "y", "q"}
ProblemTypeArgs == {None, "regression"}

\* an operation's result dict
Result(op, success, error) ==
    [op |-> op, success |-> success, error |-> error, escaped |-> FALSE]

\* an operation that ends with an exception instead of a result dict
Escaped(op, error) ==
    [op |-> op, success |-> FALSE, error |-> error, escaped |-> TRUE]

\* the public operations of MLService
operations ==
    {"process_csv", "select_target_column", "generate_model", "train_model",
     "get_insights", "predict", "get_model_code"}

\* those whose whole body is inside try / except Exception (get_model_code
\* has none: it reads two attributes and calls nothing)
outer_except == operations \ {"get_model_code"}

\* (mutant) predict has no try around its body
MutCaught(op, error) ==
    IF op \in outer_except \ {"predict"}
    THEN Result(op, FALSE, error) ELSE Escaped(op, error)

\* what becomes of an exception raised in the body of operation op: the
\* outer except clause turns it into a failure result
Caught(op, error) ==
    IF op \in outer_except THEN Result(op, FALSE, error) ELSE Escaped(op, error)
NoOpResult == Result(None, FALSE, NoReason)

NoDataError == Err("No data loaded. Please upload a CSV file first.", {}, 0)
NoTargetError == Err("Target column not set. Please select a target column first.", {}, 0)
NoModelError == Err("Model not generated. Please generate a model first.", {}, 0)
NotTrainedError == Err("Model not trained. Please train the model first.", {}, 0)

\* model_source: the generating model and, after a repair, the refiner
Source(base, refiner) == [base |-> base, refined_by |-> refiner]
NoSource == Source(NoModel, NoModel)

\* training_summary: where the metrics and the importances come from
Summary(metrics, importance) == [metrics |-> metrics, feature_importance |-> importance]

\* a metrics dict: by is who computed it ("evaluate", or "recomputed" by the
\* harness from predictions), perfect says every numeric value in it is
\* exactly 1.0, truthful (ghost) that it agrees with what the predictions
\* give against the ground truth
Metrics(by, perfect, truthful) == [by |-> by, perfect |-> perfect, truthful |-> truthful]
NoMetrics == Metrics(None, FALSE, FALSE)

NoSummary == Summary(NoMetrics, None)

\* what the model's evaluate may return: ordinary values, all 1.0 and right,
\* all 1.0 and wrong
PlainEvals == { Metrics("evaluate", FALSE, TRUE) }
Evals == PlainEvals \cup { Metrics("evaluate", TRUE, TRUE), Metrics("evaluate", TRUE, FALSE) }

sessVars == << df, data_summary, target_column, problem_type, model_code,
               model_source, is_trained, training_summary, ever_trained >>

KeepLoop ==
    UNCHANGED << pc, attempt, prompt, is_refinement, original_code_for_refinement,
                 error_for_refinement, current_model_name, ret, log >>

keptByService == << max_retries, sideVars, last_used_model, inst_code, inst_ret >>

\* an operation that runs no generator code ends with its result
Answer(r) ==
    /\ result' = r
    /\ ctx' = "svc_done"
    /\ KeepLoop
    /\ UNCHANGED keptByService

\* process_csv -> CSVHandler.load_csv, for a content out of contents
ProcessCsvOf(contents) ==
    /\ ctx = "idle"
    /\ \E file \in contents :
         IF ~Parses(file)
         THEN /\ UNCHANGED << df, data_summary >>
              /\ Answer(Result("process_csv", FALSE, Err("Failed to load CSV file", {}, 0)))
         ELSE IF ~Analyses(file)
         THEN \* self.df is assigned before _analyze_data runs
              /\ df' = file
              /\ UNCHANGED data_summary
              /\ Answer(Result("process_csv", FALSE, Err("Failed to load CSV file", {}, 0)))
         ELSE /\ df' = file
              /\ data_summary' = file
              /\ Answer(Result("process_csv", TRUE, NoReason))
    /\ invoked' = << >> /\ raised' = {}
    /\ UNCHANGED << target_column, problem_type, dynamic_model, model_code,
                    model_source, is_trained, training_summary, ever_trained,
                    instance_state >>

ProcessCsv == ProcessCsvOf(Files)

\* select_target_column
\* (mutant) a new target drops the model that was built for the old one
MutSelectTargetColumn ==
    /\ ctx = "idle"
    /\ \E col \in TargetArgs :
         IF df = None
         THEN /\ Answer(Result("select_target_column", FALSE, NoDataError))
              /\ UNCHANGED << target_column, problem_type, dynamic_model, is_trained >>
         ELSE IF col \notin Columns(df)
         THEN /\ Answer(Result("select_target_column", FALSE, Err("Column not found in the dataset", {col}, 0)))
              /\ UNCHANGED << target_column, problem_type, dynamic_model, is_trained >>
         ELSE /\ target_column' = col
              /\ problem_type' = suggest_problem_type(df, col)
              /\ dynamic_model' = NoInstance
              /\ is_trained' = FALSE
              /\ Answer(Result("select_target_column", TRUE, NoReason))
    /\ invoked' = << >> /\ raised' = {}
    /\ UNCHANGED << df, data_summary, model_code, model_source,
                    training_summary, ever_trained, instance_state >>

SelectTargetColumn ==
    /\ ctx = "idle"
    /\ \E col \in TargetArgs :
         IF df = None
         THEN /\ Answer(Result("select_target_column", FALSE, NoDataError))
              /\ UNCHANGED << target_column, problem_type >>
         ELSE IF col \notin Columns(df)
         THEN /\ Answer(Result("select_target_column", FALSE, Err("Column not found in the dataset", {col}, 0)))
              /\ UNCHANGED << target_column, problem_type >>
         ELSE /\ target_column' = col
              /\ problem_type' = suggest_problem_type(df, col)
              /\ Answer(Result("select_target_column", TRUE, NoReason))
    /\ invoked' = << >> /\ raised' = {}
    /\ UNCHANGED << df, data_summary, dynamic_model, model_code, model_source,
                    is_trained, training_summary, ever_trained, instance_state >>

\* (mutant) every failed instantiation is repaired
MutRepairAllowed(first) == TRUE

\* a failed instantiation goes to refine_model_code only from the inner try
\* of generate_model, that is, the first time
RepairAllowed(first) == first

\* what generate_model does with the outcome r of instantiate_model(code):
\* a needed refinement runs the loop inside instantiate_model; an instance
\* is installed; the first failure goes to refine_model_code(mc, str(e)),
\* the second one ends the operation
AfterInstantiate(r, code, first, mc) ==
    IF r = NeedsRefinement
    THEN /\ ctx' = IF first THEN "svc_inst1" ELSE "svc_inst2"
         /\ inst_code' = code
         /\ StartLoop(EmptyPrompt, TRUE, code, FinalCheckMessage)
         /\ UNCHANGED << max_retries, sideVars, last_used_model, inst_ret, dynamic_model,
                         instance_state, result >>
    ELSE IF r.kind = "return"
    THEN /\ dynamic_model' = Instance(r.code)
         /\ instance_state' = "new"
         /\ inst_code' = NoCode
         /\ result' = Result("generate_model", TRUE, NoReason)
         /\ ctx' = "svc_done"
         /\ KeepLoop
         /\ UNCHANGED << max_retries, sideVars, last_used_model, inst_ret >>
    ELSE IF RepairAllowed(first)
    THEN /\ ctx' = "svc_refine"
         /\ inst_code' = NoCode
         /\ StartLoop(EmptyPrompt, TRUE, mc, r.error)
         /\ UNCHANGED << max_retries, sideVars, last_used_model, inst_ret, dynamic_model,
                         instance_state, result >>
    ELSE /\ result' = Caught("generate_model", r.error)
         /\ ctx' = "svc_done"
         /\ inst_code' = NoCode
         /\ KeepLoop
         /\ UNCHANGED << max_retries, sideVars, last_used_model, inst_ret, dynamic_model,
                         instance_state >>

\* generate_model up to the call of generate_model_code
GenerateModel ==
    /\ ctx = "idle"
    /\ invoked' = << >> /\ raised' = {}
    /\ \E pt \in ProblemTypeArgs :
         IF df = None
         THEN /\ Answer(Result("generate_model", FALSE, NoDataError))
              /\ UNCHANGED problem_type
         ELSE IF target_column = None
         THEN /\ Answer(Result("generate_model", FALSE, NoTargetError))
              /\ UNCHANGED problem_type
         ELSE /\ problem_type' = IF pt # None THEN pt ELSE problem_type
              /\ ctx' = "svc_generate"
              /\ StartLoop(generation_prompt, FALSE, NoCode, NoReason)
              /\ UNCHANGED << keptByService, result >>
    /\ UNCHANGED << df, data_summary, target_column, dynamic_model, model_code,
                    model_source, is_trained, training_summary, ever_trained,
                    instance_state >>

\* generate_model once generate_model_code is over: store code and source,
\* instantiate; the loop's exception ends the operation
AfterGenerateModelCode ==
    IF ret.kind = "raise"
    THEN /\ Answer(Caught("generate_model", ret.error))
         /\ UNCHANGED << model_code, model_source, dynamic_model, instance_state >>
    ELSE /\ model_code' = ret.code
         /\ model_source' = Source(ret.source, NoModel)
         /\ AfterInstantiate(InstantiateStart(ret.code), ret.code, TRUE, ret.code)

\* generate_model once refine_model_code is over: store the refined code,
\* instantiate again
AfterRefineModelCode ==
    IF ret.kind = "raise"
    THEN /\ Answer(Caught("generate_model", ret.error))
         /\ UNCHANGED << model_code, model_source, dynamic_model, instance_state >>
    ELSE /\ model_code' = ret.code
         /\ model_source' = Source(model_source.base, ret.source)
         /\ AfterInstantiate(InstantiateStart(ret.code), ret.code, FALSE, ret.code)

\* generate_model once a refinement inside instantiate_model is over
AfterInstantiateRefinement ==
    /\ AfterInstantiate(AfterFinalRefinement(ret), inst_code, ctx = "svc_inst1", model_code)
    /\ UNCHANGED << model_code, model_source >>

\* generate_model resumes when the loop it waits for is over
GenerateModelResume ==
    /\ ctx \in {"svc_generate", "svc_refine", "svc_inst1", "svc_inst2"}
    /\ LoopOver
    /\ IF ctx = "svc_generate" THEN AfterGenerateModelCode
       ELSE IF ctx = "svc_refine" THEN AfterRefineModelCode
       ELSE AfterInstantiateRefinement
    /\ UNCHANGED << df, data_summary, target_column, problem_type, is_trained,
                    training_summary, invoked, raised, ever_trained >>

\* the model methods train_model calls, in call order
train_stages ==
    << "fit_preprocessing", "preprocess_data", "train", "evaluate",
       "get_feature_importance" >>

\* the names train_model checks with hasattr / callable before it starts
harness_methods ==
    {"fit_preprocessing", "preprocess_data", "train", "evaluate", "predict"}

\* which model method raises in one train_model / predict call, if any
TrainFailures ==
    {None, "fit_preprocessing", "preprocess_data", "train", "evaluate",
     "get_feature_importance"}
PredictFailures == {None, "preprocess_data", "predict"}
predict_stages == << "preprocess_data", "predict" >>

StageIndex(stages, m) == CHOOSE i \in 1..Len(stages) : stages[i] = m

\* (mutant) a raising stage does not stop the later ones
MutInvokedUntil(stages, fail) == stages

\* the methods invoked when method fail raises: all up to it
InvokedUntil(stages, fail) ==
    IF fail = None THEN stages ELSE SubSeq(stages, 1, StageIndex(stages, fail))

\* the except clause that catches the failure of a stage
StageError(fail) ==
    IF fail = "fit_preprocessing" THEN Err("Error during preprocessing fit", {}, 0)
    ELSE IF fail = "preprocess_data" THEN Err("Error during data preprocessing", {}, 0)
    ELSE IF fail = "train" THEN Err("Error during model training", {}, 0)
    ELSE Err("Error during evaluation", {}, 0)

\* (mutant) the flag is set right after the train stage
MutReachesTrained(fail) == fail \in {None, "evaluate", "get_feature_importance"}

\* (mutant) a failing get_feature_importance also ends the call early
MutReachesTrainedStrict(fail) == fail = None

\* train_model gets to self.is_trained = True: no stage returned early
\* (a failing get_feature_importance is only a warning)
ReachesTrained(fail) == fail \in {None, "get_feature_importance"}

\* the sanity check of the pipeline's train_model: it runs when evaluate
\* returned a non-empty dict whose numeric values are all 1.0
Rechecks(impl, ev, fail) ==
    impl = "pipeline" /\ ev.perfect /\ fail \in {None, "get_feature_importance"}

\* the methods that train_model calls when it rechecks: predict comes in
\* after evaluate
recheck_stages ==
    << "fit_preprocessing", "preprocess_data", "train", "evaluate", "predict",
       "get_feature_importance" >>

\* how the recomputation may end
Verifications(impl) == IF impl = "pipeline" THEN {"ok", "raises"} ELSE {"ok"}

\* the metrics that go into training_summary: ml_service.py stores what
\* evaluate returned; the pipeline replaces an all-1.0 dict by the values it
\* recomputed, unless the recomputation raised (then it only prints)
StoredMetrics(impl, ev, verify) ==
    IF impl = "pipeline" /\ ev.perfect /\ verify = "ok"
    THEN Metrics("recomputed", ev.truthful, TRUE)
    ELSE ev

\* the feature_importance that goes into training_summary: the method's
\* value, or {"warning": ...} with the text of its exception
StoredImportance(fail) == IF fail = None THEN "get_feature_importance" ELSE "warning"

\* (mutant) the model instance is looked at first
MutTrainPrecondition(d, t, m) ==
    IF m = NoInstance THEN NoModelError
    ELSE IF d = None THEN NoDataError
    ELSE IF t = None THEN NoTargetError
    ELSE NoReason

\* the three guards at the head of train_model: the error of the first one
\* that fails, NoReason when the call goes on
TrainPrecondition(d, t, m) ==
    IF d = None THEN NoDataError
    ELSE IF t = None THEN NoTargetError
    ELSE IF m = NoInstance THEN NoModelError
    ELSE NoReason

\* train_model of module impl, with evaluate returning one of evals
TrainModelIn(impl, evals) ==
    /\ ctx = "idle"
    /\ \E fail \in TrainFailures, ev \in evals, verify \in Verifications(impl) :
         IF TrainPrecondition(df, target_column, dynamic_model) # NoReason
         THEN /\ Answer(Result("train_model", FALSE,
                             TrainPrecondition(df, target_column, dynamic_model)))
              /\ invoked' = << >> /\ raised' = {}
              /\ UNCHANGED << is_trained, training_summary, ever_trained, instance_state >>
         ELSE IF target_column \notin Columns(df)
         THEN \* get_feature_target_split raises, the outer except answers
              /\ Answer(Caught("train_model", Err("Target column not found in dataframe", {target_column}, 0)))
              /\ invoked' = << >> /\ raised' = {}
              /\ UNCHANGED << is_trained, training_summary, ever_trained, instance_state >>
         ELSE IF harness_methods \ dynamic_model.src.callables # {}
         THEN /\ Answer(Result("train_model", FALSE,
                      Err("Model is missing required methods", harness_methods \ dynamic_model.src.callables, 0)))
              /\ invoked' = << >> /\ raised' = {}
              /\ UNCHANGED << is_trained, training_summary, ever_trained, instance_state >>
         ELSE /\ invoked' = InvokedUntil(IF Rechecks(impl, ev, fail)
                                         THEN recheck_stages ELSE train_stages, fail)
              /\ raised' = (IF fail = None THEN {} ELSE {fail})
                            \cup (IF Rechecks(impl, ev, fail) /\ verify = "raises"
                                  THEN {"predict"} ELSE {})
              /\ is_trained' = IF ReachesTrained(fail) THEN TRUE ELSE is_trained
              /\ training_summary' =
                    IF ReachesTrained(fail)
                    THEN Summary(StoredMetrics(impl, ev, verify), StoredImportance(fail))
                    ELSE training_summary
              /\ IF fail \in {None, "get_feature_importance"}
                 THEN /\ Answer(Result("train_model", TRUE, NoReason))
                      /\ ever_trained' = TRUE
                      /\ instance_state' = "trained"
                 ELSE /\ Answer(Result("train_model", FALSE, StageError(fail)))
                      /\ instance_state' =
                            IF instance_state \in {"trained", "retrain_failed"}
                            THEN "retrain_failed"
                            ELSE IF fail \in {"train", "evaluate"}
                            THEN "preprocessed" ELSE instance_state
                      /\ UNCHANGED ever_trained
    /\ UNCHANGED << df, data_summary, target_column, problem_type, dynamic_model,
                    model_code, model_source >>

\* train_model of src/ml-on-the-fly/ml_service.py, with ordinary metrics
TrainModel == TrainModelIn("ml_service", PlainEvals)

\* predict
Predict ==
    /\ ctx = "idle"
    /\ \E fail \in PredictFailures :
         IF ~is_trained
         THEN /\ Answer(Result("predict", FALSE, NotTrainedError))
              /\ invoked' = << >> /\ raised' = {}
         ELSE IF dynamic_model = NoInstance
         THEN /\ Answer(Caught("predict", Err("AttributeError", {"preprocess_data"}, 0)))
              /\ invoked' = << >> /\ raised' = {}
         ELSE /\ invoked' = InvokedUntil(predict_stages, fail)
              /\ raised' = IF fail = None THEN {} ELSE {fail}
              /\ IF fail = None
                 THEN Answer(Result("predict", TRUE, NoReason))
                 ELSE Answer(Caught("predict", Err("model method raised", {fail}, 0)))
    /\ UNCHANGED << sessVars, dynamic_model, instance_state >>

\* get_insights
GetInsights ==
    /\ ctx = "idle"
    /\ IF ~is_trained
       THEN Answer(Result("get_insights", FALSE, NotTrainedError))
       ELSE Answer(Result("get_insights", TRUE, NoReason))
    /\ invoked' = << >> /\ raised' = {}
    /\ UNCHANGED << sessVars, dynamic_model, instance_state >>

\* get_model_code
GetModelCode ==
    /\ ctx = "idle"
    /\ IF model_code = NoCode
       THEN Answer(Result("get_model_code", FALSE, Err("No model has been generated yet.", {}, 0)))
       ELSE Answer(Result("get_model_code", TRUE, NoReason))
    /\ invoked' = << >> /\ raised' = {}
    /\ UNCHANGED << sessVars, dynamic_model, instance_state >>

\* the operation's result goes back to the caller
ServiceReturn ==
    /\ ctx = "svc_done"
    /\ ctx' = "idle"
    /\ result' = NoOpResult
    /\ invoked' = << >> /\ raised' = {}
    /\ ClearFrames
    /\ meter' = [meter EXCEPT !.calls = 0]
    /\ UNCHANGED << max_retries, frontVars, last_used_model, sessVars, dynamic_model,
                    instance_state >>

\* ----------------------------------------------------------------- specs
\* MLService.__init__ (with CSVHandler.__init__)
ServiceInit ==
    /\ df = None
    /\ data_summary = None
    /\ target_column = None
    /\ problem_type = None
    /\ dynamic_model = NoInstance
    /\ model_code = NoCode
    /\ model_source = NoSource
    /\ is_trained = FALSE
    /\ training_summary = NoSummary
    /\ result = NoOpResult
    /\ invoked = << >>
    /\ raised = {}
    /\ ever_trained = FALSE
    /\ instance_state = "new"

\* ModelGenerator.__init__, no call in progress
GeneratorInit ==
    /\ last_used_model = NoModel
    /\ pc = "idle"
    /\ attempt = 0
    /\ prompt = EmptyPrompt
    /\ is_refinement = FALSE
    /\ original_code_for_refinement = NoCode
    /\ error_for_refinement = NoReason
    /\ current_model_name = model_name
    /\ ret = NoResult
    /\ log = << >>
    /\ ctx = "idle"
    /\ inst_code = NoCode
    /\ inst_ret = NoResult

\* no direct validator call made, no request received
SideInit ==
    /\ checked_code = NoCode
    /\ checks = << >>
    /\ client = 0
    /\ service_class = "ml_service"
    /\ meter = MeterOff

\* a ModelGenerator(max_retries = N) used on its own
GenInit ==
    /\ max_retries \in 0..MaxRetriesBound
    /\ GeneratorInit
    /\ ServiceInit
    /\ SideInit

\* an MLService: its ModelGenerator() has the default max_retries
Init ==
    /\ max_retries = DefaultMaxRetries
    /\ GeneratorInit
    /\ ServiceInit
    /\ SideInit

Next ==
    \/ ProcessCsv
    \/ SelectTargetColumn
    \/ GenerateModel
    \/ PrimaryCall
    \/ FallbackCall
    \/ Sleep
    \/ Exhausted
    \/ GenerateModelResume
    \/ TrainModel
    \/ Predict
    \/ GetInsights
    \/ GetModelCode
    \/ ServiceReturn

Spec == Init /\ [][Next]_vars

GenNext ==
    \/ GenerateModelCode
    \/ RefineModelCode
    \/ InstantiateModel
    \/ PrimaryCall
    \/ FallbackCall
    \/ Sleep
    \/ Exhausted
    \/ ReturnToCaller
    \/ InstantiateResume

GenSpec == GenInit /\ [][GenNext]_vars

\* ------------------------------------------------- the training harness
\* a session of either MLService class right after process_csv(A),
\* select_target_column("y") and a generate_model that the primary
\* provider answered with a complete, working text
ModelInstalled ==
    /\ df = "A"
    /\ data_summary = "A"
    /\ target_column = "y"
    /\ problem_type = suggest_problem_type("A", "y")
    /\ dynamic_model = Instance(GoodSrc)
    /\ model_code = GoodSrc
    /\ model_source = Source(model_name, NoModel)
    /\ is_trained = FALSE
    /\ training_summary = NoSummary
    /\ result = NoOpResult
    /\ invoked = << >>
    /\ raised = {}
    /\ ever_trained = FALSE
    /\ instance_state = "new"
    /\ last_used_model = model_name
    /\ pc = "idle"
    /\ attempt = 0
    /\ prompt = EmptyPrompt
    /\ is_refinement = FALSE
    /\ original_code_for_refinement = NoCode
    /\ error_for_refinement = NoReason
    /\ current_model_name = model_name
    /\ ret = NoResult
    /\ log = << >>
    /\ ctx = "idle"
    /\ inst_code = NoCode
    /\ inst_ret = NoResult

HarnessInit ==
    /\ max_retries = DefaultMaxRetries
    /\ ModelInstalled
    /\ checked_code = NoCode
    /\ checks = << >>
    /\ client = 0
    /\ service_class \in {"ml_service", "pipeline"}
    /\ meter = MeterOff

\* train_model of the two modules, with every kind of evaluate result
ServiceTrainModel ==
    service_class = "ml_service" /\ TrainModelIn("ml_service", Evals)
PipelineTrainModel ==
    service_class = "pipeline" /\ TrainModelIn("pipeline", Evals)

HarnessNext ==
    \/ ServiceTrainModel
    \/ PipelineTrainModel
    \/ Predict
    \/ GetInsights
    \/ ServiceReturn

HarnessSpec == HarnessInit /\ [][HarnessNext]_vars

\* ------------------------------------------- a provider that goes silent
\* _call_llm posts with requests.post(url, headers=..., json=...) and no
\* timeout argument, so a provider that accepts the request and never
\* answers keeps the call, and the thread of the loop, blocked for good.
PrimaryCallBlocks ==
    /\ pc = "round"
    /\ RoundsLeft(attempt)
    /\ pc' = "blocked"
    /\ current_model_name' = RoundStartModel(current_model_name)
    /\ UNCHANGED << max_retries, sideVars, last_used_model, loopLocals, ret, log,
                    ctx, inst_code, inst_ret, svcVars >>

FallbackCallBlocks ==
    /\ pc = "fallback"
    /\ pc' = "blocked"
    /\ current_model_name' = FallbackModel
    /\ UNCHANGED << max_retries, sideVars, last_used_model, loopLocals, ret, log,
                    ctx, inst_code, inst_ret, svcVars >>

NetNext ==
    \/ GenNext
    \/ PrimaryCallBlocks
    \/ FallbackCallBlocks

\* the interpreter keeps running the thread whenever it can take a step
NetSpec == GenInit /\ [][NetNext]_vars /\ WF_vars(NetNext)

\* ------------------------------------------- the validator called directly
\* texts handed to _validate_code_structure: one that does not parse, one
\* that makes it raise, two without the class, and every class that
\* declares a set of required names by plain def (methods), none or all of
\* the others in another way (indirect), none or all of the others outside
\* the class body (outside), with bodies that work, that make the
\* constructor raise, or that leave train uncallable
ClassSources ==
    UNION { { Src("ok", TRUE, m, i, o, r, m \cup i, (m \cup i) \ u) :
                i \in { {}, RequiredSet \ m },
                o \in { {}, RequiredSet \ m },
                r \in {"ok", "ctor_raises"},
                u \in { {}, {"train"} } } :
            m \in SUBSET RequiredSet }

\* parses, no class DynamicModel, but module-level functions (or methods of
\* a class of another name) with all the required names
LooseFunctionsSrc == Src("ok", FALSE, {}, {}, RequiredSet, "no_attr", {}, {})

ValidatorInputs ==
    {SyntaxSrc, CrashSrc, NoClassSrc, LooseFunctionsSrc} \cup ClassSources

\* one call of _validate_code_structure: it raises, or returns a reason / None
CheckOutcome(code) ==
    IF ValidatorRaises(code)
    THEN [raises |-> TRUE, reason |-> NoReason]
    ELSE [raises |-> FALSE, reason |-> validate_code_structure(code)]

ValidateCode ==
    /\ Len(checks) < MaxChecks
    /\ checks' = Append(checks, CheckOutcome(checked_code))
    /\ UNCHANGED << genVars, svcVars, checked_code, client, service_class, meter >>

ValInit ==
    /\ max_retries = DefaultMaxRetries
    /\ GeneratorInit
    /\ ServiceInit
    /\ checked_code \in ValidatorInputs
    /\ checks = << >>
    /\ client = 0
    /\ service_class = "ml_service"
    /\ meter = MeterOff

ValNext == ValidateCode

ValSpec == ValInit /\ [][ValNext]_vars

\* ------------------------------------------------------ the HTTP front end
\* api.py: one module-level ml_service = MLService() serves every request.
\* The handlers call the service synchronously, so requests are served one
\* at a time, in any order of clients.
Clients == 1..NumClients

\* the MLService object the handlers use for a request of client c:
\* the module-level ml_service, whoever asks
SessionOf(c) ==
    << df, data_summary, target_column, problem_type, dynamic_model,
       model_code, model_source, is_trained, training_summary >>

\* a request of client c reaches its handler
Dispatch(c) ==
    /\ ctx = "idle"
    /\ client # c
    /\ client' = c
    /\ UNCHANGED << genVars, svcVars, checked_code, checks, service_class, meter >>

\* the route handlers (the /generate-model route, which runs the retry
\* loop, is exercised by Spec)
UploadCsv == client # 0 /\ ProcessCsvOf(Uploads)
SelectTarget == client # 0 /\ SelectTargetColumn
TrainModelRoute == client # 0 /\ TrainModel
PredictRoute == client # 0 /\ Predict
InsightsRoute == client # 0 /\ GetInsights
ModelCodeRoute == client # 0 /\ GetModelCode
Respond == client # 0 /\ ServiceReturn

ApiNext ==
    \/ \E c \in Clients : Dispatch(c)
    \/ UploadCsv
    \/ SelectTarget
    \/ TrainModelRoute
    \/ PredictRoute
    \/ InsightsRoute
    \/ ModelCodeRoute
    \/ Respond

ApiSpec == Init /\ [][ApiNext]_vars

\* --------------------------------------------------- generate_model, metered
\* a session after process_csv(A) and select_target_column("y"), whose
\* generator has max_retries = N, with the meter on
BudgetInit ==
    /\ max_retries \in 0..MaxRetriesBound
    /\ GeneratorInit
    /\ df = "A"
    /\ data_summary = "A"
    /\ target_column = "y"
    /\ problem_type = suggest_problem_type("A", "y")
    /\ dynamic_model = NoInstance
    /\ model_code = NoCode
    /\ model_source = NoSource
    /\ is_trained = FALSE
    /\ training_summary = NoSummary
    /\ result = NoOpResult
    /\ invoked = << >>
    /\ raised = {}
    /\ ever_trained = FALSE
    /\ instance_state = "new"
    /\ checked_code = NoCode
    /\ checks = << >>
    /\ client = 0
    /\ service_class = "ml_service"
    /\ meter = MeterOn

\* generate_model calls, one after the other
BudgetNext ==
    \/ GenerateModel
    \/ PrimaryCall
    \/ FallbackCall
    \/ Sleep
    \/ Exhausted
    \/ GenerateModelResume
    \/ ServiceReturn

BudgetSpec == BudgetInit /\ [][BudgetNext]_vars

\* ======================================================= claims, GenSpec
LastCall == log[Len(log)]

\* every provider call so far returned text that validation rejected
AllRejected == \A i \in 1..Len(log) : log[i].status = "invalid"

\* C1: with max_retries = N >= 1 and a backend whose every response is
\* rejected by validation (no call raises), an invocation of the retry loop
\* makes one call per round, never returns, always has a next step until it
\* raises, and raises the exhaustion failure after exactly N provider calls.
C1_ExhaustedAfterExactlyN ==
    AllRejected =>
        /\ Len(log) <= max_retries
        /\ pc \in {"idle", "round", "sleep", "raised"}
        /\ pc = "round" => attempt = Len(log) /\ ENABLED (PrimaryCall \/ Exhausted)
        /\ pc = "sleep" => attempt + 1 = Len(log) /\ ENABLED Sleep
        /\ pc = "raised" => Len(log) = max_retries /\ ret = Raised(ExhaustedError)

C1_Witness ==
    /\ ctx = "generate_model_code"
    /\ pc = "raised"
    /\ AllRejected
    /\ max_retries >= 3
    /\ Len(log) = max_retries

\* C2: whenever the loop behind generate_model_code / refine_model_code
\* returns, the returned source passes _validate_code_structure, it is the
\* text of the last provider call, that call is the only accepted one of the
\* invocation, and the returned name is the model that call asked.
C2_ReturnedIsValidated ==
    pc = "returned" =>
        /\ ret.kind = "return"
        /\ ~ValidatorRaises(ret.code)
        /\ validate_code_structure(ret.code) = NoReason
        /\ Len(log) >= 1
        /\ LastCall.status = "valid"
        /\ LastCall.code = ret.code
        /\ LastCall.provider = ret.source
        /\ \A i \in 1..(Len(log) - 1) : log[i].status # "valid"

C2_Witness ==
    /\ pc = "returned"
    /\ Len(log) >= 2
    /\ LastCall.is_gemini
    /\ ret.source = gemini_model

\* the round of call i has had its fallback call, or is about to
FallbackFollows(i) ==
    \/ i < Len(log) /\ log[i + 1].is_gemini /\ log[i + 1].round = log[i].round
    \/ i = Len(log) /\ pc = "fallback" /\ attempt = log[i].round

\* C3 (as claimed): in any round in which the primary provider was called
\* and its output was rejected by validation or the call raised, the fallback
\* provider is called in that round before the round is consumed.
C3_FallbackAfterAnyPrimaryFailure ==
    \A i \in 1..Len(log) :
        (~log[i].is_gemini /\ log[i].status # "valid") => FallbackFollows(i)

\* C3 (amended): the fallback is called in the same round exactly when the
\* primary's round raised (provider error, or an exception while
\* validating); a primary output rejected with a reason gets no fallback
\* call in that round.
C3_FallbackAfterPrimaryRaises ==
    \A i \in 1..Len(log) :
        ~log[i].is_gemini =>
            /\ log[i].status = "raised" => FallbackFollows(i)
            /\ log[i].status = "invalid" => ~FallbackFollows(i)

C3_Witness ==
    /\ Len(log) >= 3
    /\ log[1].status = "invalid"
    /\ ~log[2].is_gemini /\ log[2].status = "raised"
    /\ log[3].is_gemini /\ log[3].round = log[2].round

\* C4: the first call of every round, and so of every invocation, goes to
\* the primary provider; a fallback call is always preceded, in its own
\* round, by a primary call that did not yield valid code.
C4_PrimaryFirst ==
    /\ \A i \in 1..Len(log) :
          /\ (i = 1 \/ log[i - 1].round # log[i].round) =>
                 ~log[i].is_gemini /\ log[i].provider = model_name
          /\ log[i].is_gemini =>
                 /\ i > 1
                 /\ log[i - 1].round = log[i].round
                 /\ ~log[i - 1].is_gemini
                 /\ log[i - 1].provider = model_name
                 /\ log[i - 1].status # "valid"
    /\ pc = "fallback" =>
          Len(log) >= 1 /\ ~LastCall.is_gemini /\ LastCall.round = attempt
    /\ pc # "idle" =>
          \A r \in 0..(attempt - 1) :
              \E i \in 1..Len(log) : log[i].round = r /\ ~log[i].is_gemini

C4_Witness ==
    /\ Len(log) >= 4
    /\ log[2].is_gemini /\ log[2].round = 0
    /\ log[4].is_gemini /\ log[4].round = 1

\* indexes of the calls before call i whose output validation rejected
RejectedBefore(i) == { j \in 1..(i - 1) : log[j].status = "invalid" }

Greatest(S) == CHOOSE j \in S : \A k \in S : k <= j

\* C5 (as claimed): every refinement prompt embeds the most recently
\* rejected candidate of the invocation and the reason given for it.
C5_RefinesMostRecentRejection ==
    \A i \in 1..Len(log) :
        (log[i].prompt.kind = "refine" /\ RejectedBefore(i) # {}) =>
            /\ log[i].prompt.code = log[Greatest(RejectedBefore(i))].code
            /\ log[i].prompt.error = log[Greatest(RejectedBefore(i))].reason

\* the text of error names the reason
Mentions(error, reason) ==
    error.tag = reason.tag /\ reason.names \subseteq error.names

\* C6 (as claimed): when the rounds are used up, the failure raised carries
\* the reason of the last failed attempt.
C6_ExhaustionCarriesLastReason ==
    (pc = "raised" /\ Len(log) >= 1) => Mentions(ret.error, LastCall.reason)

\* C7: through generate_model_code, as long as no call raises: call i is
\* made in round i-1 to the primary, call 1 with the generation prompt and
\* every later call with a refinement prompt; after a rejected call i < N
\* the loop goes on to call i+1; the first accepted call k+1 ends the
\* invocation, which returns that text after k rounds were used up.
C7_KFailuresThenValid ==
    (ctx = "generate_model_code" /\ \A i \in 1..Len(log) : log[i].status # "raised") =>
        /\ Len(log) <= max_retries
        /\ \A i \in 1..Len(log) :
              /\ ~log[i].is_gemini
              /\ log[i].round = i - 1
              /\ log[i].prompt.kind = (IF i = 1 THEN "generate" ELSE "refine")
              /\ log[i].status = "valid" =>
                    /\ i = Len(log)
                    /\ pc = "returned"
                    /\ ret = Returned(log[i].code, model_name)
                    /\ attempt = i - 1
              /\ (log[i].status = "invalid" /\ i = Len(log) /\ i < max_retries) =>
                    \/ pc = "round" /\ attempt = i /\ ENABLED PrimaryCall
                    \/ pc = "sleep" /\ attempt = i - 1

C7_Witness ==
    /\ ctx = "generate_model_code"
    /\ pc = "returned"
    /\ Len(log) = 3
    /\ log[1].code = SyntaxSrc
    /\ log[2].code = MissingSrc
    /\ log[3].code = GoodSrc
    /\ attempt = 2

\* ========================================================== claims, Spec
\* C8: a non-None dynamic_model was built from a source that passes
\* _validate_code_structure and its instance has every required method as
\* a callable attribute; model methods are only ever invoked (by
\* train_model or predict) on such an instance.
C8_ModelPassedBothChecks ==
    /\ dynamic_model # NoInstance =>
          /\ ~ValidatorRaises(dynamic_model.src)
          /\ validate_code_structure(dynamic_model.src) = NoReason
          /\ dynamic_model.src.run = "ok"
          /\ \A i \in 1..Len(required_methods) :
                required_methods[i] \in dynamic_model.src.callables
    /\ invoked # << >> => dynamic_model # NoInstance

C8_Witness ==
    /\ result = Result("train_model", TRUE, NoReason)
    /\ invoked = train_stages
    /\ dynamic_model # NoInstance
    /\ model_source.refined_by # NoModel

\* C9: as long as no train_model call of the session has returned success,
\* predict answers with the not-trained error and invokes no model method,
\* also after a train_model call that failed in train or evaluate.
C9_PredictNeedsCompletedTraining ==
    (result.op = "predict" /\ ~ever_trained) =>
        /\ result = Result("predict", FALSE, NotTrainedError)
        /\ invoked = << >>

C9_Witness ==
    /\ result = Result("predict", FALSE, NotTrainedError)
    /\ dynamic_model # NoInstance
    /\ instance_state = "preprocessed"
    /\ ~ever_trained

\* C10 (as claimed): once generate_model has installed a new instance,
\* predict answers with the not-trained error until train_model has
\* succeeded on that instance.
C10_NewModelNeedsTraining ==
    (result.op = "predict" /\ instance_state \in {"new", "preprocessed"}) =>
        /\ result = Result("predict", FALSE, NotTrainedError)
        /\ invoked = << >>

\* C11 (as claimed): when the most recent train_model call on the current
\* instance failed in one of its stages, predict answers with the
\* not-trained error and invokes no model method, also when an earlier
\* train_model call on that instance had succeeded.
C11_FailedTrainingBlocksPredict ==
    (result.op = "predict" /\ instance_state \in {"preprocessed", "retrain_failed"}) =>
        /\ result = Result("predict", FALSE, NotTrainedError)
        /\ invoked = << >>

\* C12: a train_model call that gets to the model invokes the stages in the
\* order fit_preprocessing, preprocess_data, train, evaluate (then
\* get_feature_importance); when stage k raises, the call returns a failure
\* result whose error carries the tag of stage k and of no other stage, and
\* no later stage has been invoked.
C12_StageFailureNamesStage ==
    (result.op = "train_model" /\ invoked # << >>) =>
        LET k == Len(invoked)
        IN  /\ k <= Len(train_stages)
            /\ invoked = SubSeq(train_stages, 1, k)
            /\ result.success => k >= 4
            /\ ~result.success =>
                  /\ k <= 4
                  /\ result.error = StageError(train_stages[k])
                  /\ \A j \in (1..4) \ {k} : StageError(train_stages[j]) # result.error

C12_Witness ==
    /\ result = Result("train_model", FALSE, Err("Error during model training", {}, 0))
    /\ invoked = << "fit_preprocessing", "preprocess_data", "train" >>

\* ============================================ claims, GenSpec (the loader)
\* instantiate_model found its argument rejected by the final verification
\* and called refine_model_code
Repairing == ctx \in {"instantiate_model", "instantiate_done"} /\ pc # "idle"

\* C13 (as claimed): the repair inside instantiate_model is one round, a
\* primary call and at most one fallback call.
C13_RepairIsOneRound ==
    Repairing =>
        /\ Len(log) <= 2
        /\ \A i \in 1..Len(log) : log[i].round = 0

\* C13 (amended): the repair inside instantiate_model is one invocation of
\* refine_model_code on the rejected text with the fixed final-check
\* message; it may use every round 0 .. max_retries-1, its exhaustion
\* propagates out of instantiate_model, and the text it returns is loaded
\* without another repair.
C13_RepairIsOneInvocation ==
    Repairing =>
        /\ inst_code \in InstantiateCodes
        /\ ~final_code_verification(inst_code)
        /\ Len(log) <= 2 * max_retries
        /\ \A i \in 1..Len(log) :
              /\ log[i].round < max_retries
              /\ log[i].prompt = create_refinement_prompt(inst_code, FinalCheckMessage)
              /\ i > 1 => log[i].round >= log[i-1].round
        /\ ctx = "instantiate_done" =>
              /\ LoopOver
              /\ pc = "raised" =>
                    /\ inst_ret = Raised(ExhaustedError)
                    /\ \A r \in 0..(max_retries - 1) :
                          \E i \in 1..Len(log) : log[i].round = r
              /\ pc = "returned" => inst_ret = LoadModel(ret.code)

C13_Witness ==
    /\ ctx = "instantiate_done"
    /\ pc = "returned"
    /\ inst_code = MissingSrc
    /\ Len(log) >= 3
    /\ log[Len(log)].round = 2
    /\ inst_ret = Returned(GoodSrc, NoModel)

\* the text instantiate_model executes: its argument, or what the repair
\* returned
Loaded == IF pc = "returned" THEN ret.code ELSE inst_code

\* C14: instantiate_model returns only an instance on which every required
\* name is an attribute and callable; a loaded text whose instance lacks one
\* or holds a non-callable under such a name makes the call raise.
C14_ReturnedInstanceIsComplete ==
    ctx = "instantiate_done" =>
        /\ inst_ret.kind \in {"return", "raise"}
        /\ inst_ret.kind = "return" =>
              /\ inst_ret.code = Loaded
              /\ \A i \in 1..Len(required_methods) :
                    /\ required_methods[i] \in Loaded.attrs
                    /\ required_methods[i] \in Loaded.callables

C14_Witness ==
    /\ ctx = "instantiate_done"
    /\ inst_code = FragileSrc
    /\ inst_ret.kind = "raise"
    /\ inst_ret.error.tag = "Instantiated model is missing required method or it's not callable"

\* C15 (as claimed): the error of the live method check names every required
\* name that is missing or not callable on the instance.
C15_ErrorNamesAllBadMethods ==
    (/\ ctx = "instantiate_done"
     /\ inst_ret.kind = "raise"
     /\ inst_ret.error.tag = "Instantiated model is missing required method or it's not callable") =>
        inst_ret.error.names = { required_methods[i] : i \in BadMethods(Loaded) }

\* ================================================= claims, ValSpec
\* C16: a parseable text with a class DynamicModel is rejected exactly when
\* some required name is not among the method names declared in the class
\* body, and the reason then lists every such name, whichever of the seven
\* are absent.
C16_ReasonListsEveryMissingMethod ==
    (checks # << >> /\ checked_code.parse = "ok" /\ checked_code.hasClass) =>
        LET missing == RequiredSet \ checked_code.methods
        IN  /\ ~checks[1].raises
            /\ checks[1].reason # NoReason <=> missing # {}
            /\ missing # {} =>
                  /\ checks[1].reason.tag = "DynamicModel class is missing required methods"
                  /\ checks[1].reason.names = missing

C16_Witness ==
    /\ checks # << >>
    /\ checked_code.hasClass
    /\ checked_code.methods = {"__init__", "train", "predict"}
    /\ checks[1].reason.names =
          {"fit_preprocessing", "preprocess_data", "evaluate", "get_feature_importance"}

\* C17 (as claimed): a parseable text whose class DynamicModel has every
\* required method is accepted, whatever the bodies do and however the
\* methods are declared.
C17_AcceptsHoweverDeclared ==
    (/\ checks # << >>
     /\ checked_code.parse = "ok"
     /\ checked_code.hasClass
     /\ RequiredSet \subseteq (checked_code.methods \cup checked_code.indirect)) =>
        checks[1] = [raises |-> FALSE, reason |-> NoReason]

\* C17 (amended): a parseable text whose class DynamicModel declares every
\* required method by a plain def directly in the class body is accepted,
\* whatever the bodies do.
C17_AcceptsPlainDefs ==
    (/\ checks # << >>
     /\ checked_code.parse = "ok"
     /\ checked_code.hasClass
     /\ RequiredSet \subseteq checked_code.methods) =>
        checks[1] = [raises |-> FALSE, reason |-> NoReason]

C17_Witness ==
    /\ checks # << >>
    /\ checked_code.methods = RequiredSet
    /\ checked_code.run = "ctor_raises"
    /\ "train" \notin checked_code.callables
    /\ checks[1] = [raises |-> FALSE, reason |-> NoReason]

\* ================================================= claims, ApiSpec
\* C18 (as claimed): sessions are independent: a step that serves a request
\* of another client leaves the session a client works with unchanged.
C18_SessionsIndependent ==
    [][\A c \in Clients : client' # c => SessionOf(c)' = SessionOf(c)]_vars

\* C20 (as claimed): process_csv fails on input that parses to zero data
\* rows, and no stored data summary has num_rows = 0.
C20_EmptyDatasetRejected ==
    /\ (result.op = "process_csv" /\ result.success) => NumRows(df) > 0
    /\ data_summary # None => NumRows(data_summary) > 0

\* ================================================= claims, NetSpec
\* C19 (as claimed): every provider call ends, by an answer, an error or a
\* timeout, so every invocation of the retry loop eventually returns a
\* validated text or raises.
C19_EveryInvocationEnds ==
    (pc = "round") ~> LoopOver

\* ================================================= claims, HarnessSpec
\* C21 (as claimed): in both modules a successful train_model stores metrics
\* that are all exactly 1.0 only if the values recomputed from the model's
\* predictions agree; reported all-1.0 metrics that disagree are replaced
\* by the recomputed ones (stated for calls in which the recomputation,
\* if any, did not raise).
C21_PerfectMetricsRechecked ==
    (result.op = "train_model" /\ result.success /\ "predict" \notin raised) =>
        (training_summary.metrics.perfect => training_summary.metrics.truthful)

\* C22 (as claimed): when a model method or a harness-side check raised
\* during train_model, the result is a failure that carries the error of
\* the stage that raised, or the result is a success in which the value put
\* in place of the failed call is marked as such.
C22_NoSwallowedException ==
    (result.op = "train_model" /\ raised # {}) =>
        \/ /\ ~result.success
           /\ \E m \in raised : result.error = StageError(m)
        \/ /\ result.success
           /\ raised = {"get_feature_importance"}
           /\ training_summary.feature_importance = "warning"

C24_DelayBetweenRounds ==
    [][(attempt' = attempt + 1 /\ pc' = "round") => pc = "sleep"]_vars

\* the positions in the log of the calls to the primary / fallback provider
PrimaryCalls == { i \in 1..Len(log) : ~log[i].is_gemini }
FallbackCalls == { i \in 1..Len(log) : log[i].is_gemini }

\* C25: in one invocation with max_retries = N the primary provider is
\* called at most N times and at most once a round, the fallback provider
\* at most once a round and only right after a primary attempt of the same
\* round that raised, there are at most 2N calls, and with N = 0 the
\* invocation raises without any call.
C25_CallBudget ==
    pc # "idle" =>
        /\ Cardinality(PrimaryCalls) <= max_retries
        /\ Len(log) <= 2 * max_retries
        /\ \A i, j \in 1..Len(log) :
              (log[i].round = log[j].round /\ log[i].is_gemini = log[j].is_gemini) => i = j
        /\ \A i \in FallbackCalls :
              /\ i > 1
              /\ (i - 1) \in PrimaryCalls
              /\ log[i-1].round = log[i].round
              /\ log[i-1].status = "raised"
        /\ max_retries = 0 =>
              /\ log = << >>
              /\ pc \in {"round", "raised"}
              /\ pc = "raised" => ret = Raised(ExhaustedError)

C25_Witness ==
    /\ max_retries = MaxRetriesBound
    /\ pc = "raised"
    /\ Len(log) = 2 * max_retries
    /\ Cardinality(FallbackCalls) = max_retries

\* C26: within one invocation, after a call whose answer validation
\* rejected every later call, primary or fallback, sends a refinement
\* prompt; the plain generation prompt is sent only while every earlier
\* attempt raised; refine_model_code and the repair of instantiate_model
\* send refinement prompts only, never their empty plain prompt.
C26_RefinementIsMonotone ==
    /\ \A j \in 1..Len(log) :
          /\ log[j].prompt.kind \in {"generate", "refine"}
          /\ (\E i \in 1..(j-1) : log[i].status = "invalid") => log[j].prompt.kind = "refine"
          /\ log[j].prompt.kind = "generate" =>
                /\ ctx = "generate_model_code"
                /\ log[j].prompt = generation_prompt
                /\ \A i \in 1..(j-1) : log[i].status = "raised"
    /\ ctx \in {"refine_model_code", "instantiate_model", "instantiate_done"} =>
          \A j \in 1..Len(log) : log[j].prompt.kind = "refine"

C26_Witness ==
    /\ ctx = "generate_model_code"
    /\ Len(log) = 4
    /\ log[1].status = "raised" /\ log[1].prompt.kind = "generate"
    /\ log[2].status = "invalid" /\ log[2].is_gemini /\ log[2].prompt.kind = "generate"
    /\ log[3].status = "raised" /\ log[3].prompt.kind = "refine"
    /\ log[4].is_gemini /\ log[4].prompt.kind = "refine"

\* ================================================= claims, ValSpec (continued)
\* C27: the checks come in the order syntax, class, methods and only the
\* first failing one is reported: every text that ast.parse refuses with a
\* SyntaxError is rejected with the syntax reason and no names, and a
\* parseable text without a class DynamicModel gets the class-not-found
\* reason, also when functions with all required names exist outside such
\* a class.
C27_FirstFailingCheckOnly ==
    checks # << >> =>
        /\ checked_code.parse \in {"syntax", "crash"} =>
              checks[1] = [raises |-> FALSE, reason |-> Err("Syntax error", {}, 0)]
        /\ (checked_code.parse = "ok" /\ ~checked_code.hasClass) =>
              checks[1] = [raises |-> FALSE,
                           reason |-> Err("DynamicModel class definition not found.", {}, 0)]
        /\ (checked_code.parse = "ok" /\ checked_code.hasClass) =>
              checks[1].reason.tag \in {"None", "DynamicModel class is missing required methods"}

\* C28: only defs directly in the body of the class DynamicModel count: a
\* required name that is defined only outside that body (at module level,
\* inside a method, in a nested or another class) is reported as missing.
C28_OnlyClassBodyCounts ==
    (checks # << >> /\ checked_code.parse = "ok" /\ checked_code.hasClass) =>
        \A m \in checked_code.outside \ checked_code.methods :
            /\ checks[1].reason.tag = "DynamicModel class is missing required methods"
            /\ m \in checks[1].reason.names

C28_Witness ==
    /\ checks # << >>
    /\ checked_code.hasClass
    /\ checked_code.methods = RequiredSet \ {"evaluate", "predict"}
    /\ checked_code.outside = {"evaluate", "predict"}
    /\ checks[1].reason.names = {"evaluate", "predict"}

\* ================================================= claims, ApiSpec (continued)
\* C29: a failed load leaves the dataframe and the summary as they were, so
\* in every reachable state data_summary is the profile of the dataframe
\* that is held (both empty before the first load).
C29_SummaryDescribesDataframe == data_summary = df

\* ==================================================== claims, Spec (continued)
\* fit_preprocessing, preprocess_data, train and evaluate
core_stages == SubSeq(train_stages, 1, 4)

\* C30: is_trained turns True, and training_summary is written, only by a
\* train_model step in which fit_preprocessing, preprocess_data, train and
\* evaluate were all called and none of them raised; a train_model step in
\* which only get_feature_importance raised still sets is_trained and
\* writes the summary; no step of another operation changes either.
C30_TrainedOnlyByCompletedTraining ==
    [][ /\ (is_trained' # is_trained \/ training_summary' # training_summary) =>
              /\ ctx = "idle" /\ result'.op = "train_model" /\ result'.success
              /\ is_trained'
              /\ training_summary' # NoSummary
              /\ SubSeq(invoked', 1, 4) = core_stages
              /\ \A i \in 1..4 : core_stages[i] \notin raised'
        /\ (ctx = "idle" /\ result'.op = "train_model"
                /\ raised' = {"get_feature_importance"}) =>
              /\ is_trained'
              /\ training_summary'.feature_importance = "warning"
      ]_vars

C30_Witness ==
    /\ result = Result("train_model", TRUE, NoReason)
    /\ raised = {"get_feature_importance"}
    /\ invoked = train_stages
    /\ is_trained
    /\ training_summary = Summary(Metrics("evaluate", FALSE, TRUE), "warning")

\* C31: between operations, the model_code that get_model_code returns is
\* the text the held dynamic_model was built from, also after a later
\* generate_model call has failed.
C31_ModelCodeIsSourceOfInstance ==
    (ctx \in {"idle", "svc_done"} /\ dynamic_model # NoInstance) =>
        dynamic_model.src = model_code

\* C32: a target_column that is set is a column of the dataframe that is
\* held, also after process_csv has loaded another dataset.
C32_TargetIsColumnOfDataframe ==
    target_column # None => (df # None /\ target_column \in Columns(df))

\* the attributes of an MLService
session == << df, data_summary, target_column, problem_type, dynamic_model,
              model_code, model_source, is_trained, training_summary >>

\* C33: generate_model starts the provider loop only with a dataset and a
\* target column, and train_model invokes a model method only with a
\* dataset, a target column and an instance; a call that lacks one of them
\* answers with the error of the first missing one in that order, makes no
\* provider call, invokes no method and leaves the session as it was.
C33_PreconditionsBeforeEffects ==
    [][ /\ (ctx = "idle" /\ ctx' = "svc_generate") =>
              (df # None /\ target_column # None)
        /\ (ctx = "idle" /\ result'.op = "generate_model") =>
              /\ df = None \/ target_column = None
              /\ result'.error = IF df = None THEN NoDataError ELSE NoTargetError
              /\ ~result'.success
              /\ pc' = "idle" /\ log' = log
              /\ session' = session
        /\ (ctx = "idle" /\ result'.op = "train_model" /\ invoked' # << >>) =>
              (df # None /\ target_column # None /\ dynamic_model # NoInstance)
        /\ (ctx = "idle" /\ result'.op = "train_model"
                /\ (df = None \/ target_column = None \/ dynamic_model = NoInstance)) =>
              /\ result'.error = IF df = None THEN NoDataError
                                 ELSE IF target_column = None THEN NoTargetError
                                 ELSE NoModelError
              /\ ~result'.success
              /\ invoked' = << >>
              /\ session' = session
        /\ (pc' # "idle" /\ ctx' # "idle") => (df' # None /\ target_column' # None)
      ]_vars

\* train_model was rejected for the missing target although no model
\* exists either
C33_Witness ==
    /\ result = Result("train_model", FALSE, NoTargetError)
    /\ df # None
    /\ target_column = None
    /\ dynamic_model = NoInstance

\* C34: a candidate that generate_model is about to pass to
\* instantiate_model (the value generate_model_code or refine_model_code
\* returned) passes _validate_code_structure, so the final verification in
\* instantiate_model accepts it and generate_model never waits for a
\* refinement started inside instantiate_model.
C34_LoaderNeverRepairsForService ==
    /\ (ctx \in {"svc_generate", "svc_refine"} /\ pc = "returned") =>
          /\ ~ValidatorRaises(ret.code)
          /\ validate_code_structure(ret.code) = NoReason
          /\ final_code_verification(ret.code)
          /\ InstantiateStart(ret.code) # NeedsRefinement
    /\ ctx \notin {"svc_inst1", "svc_inst2"}

\* the repaired candidate is about to be instantiated
C34_Witness ==
    /\ ctx = "svc_refine"
    /\ pc = "returned"
    /\ ret.code = FragileSrc

\* ===================================================== claims, BudgetSpec
\* C35: one generate_model call instantiates at most twice and repairs at
\* most once (refine_model_code is entered only from the first, failed
\* instantiation; after the second one the call answers without another
\* provider call), and with max_retries = N it makes at most 4N provider
\* calls.
C35_GenerateModelBudget ==
    [][ /\ ctx' = "svc_refine" => ctx \in {"svc_generate", "svc_refine"}
        /\ (ctx = "svc_refine" /\ ctx' # "svc_refine") =>
              (ctx' = "svc_done" /\ meter'.calls = meter.calls)
        /\ ctx' = "svc_generate" =>
              (ctx \in {"idle", "svc_generate"} /\ meter'.calls <= 2 * max_retries)
        /\ meter'.calls <= 4 * max_retries
      ]_vars

\* both loops used every call they may make and the second instantiation
\* failed too
C35_Witness ==
    /\ max_retries > 0
    /\ meter.calls = 4 * max_retries
    /\ result.op = "generate_model"
    /\ ~result.success
    /\ model_source.refined_by # NoModel

\* ==================================================== claims, Spec (the rest)
\* C36: every operation of MLService ends with a result dict that carries
\* a boolean success flag, whatever the provider, the validator, the loader
\* and the model methods did: none of their exceptions leaves the
\* operation.
C36_OperationsAlwaysAnswer ==
    ctx = "svc_done" =>
        /\ result.op \in operations
        /\ result.success \in BOOLEAN
        /\ ~result.escaped

\* predict answered after the model's predict raised
C36_Witness ==
    /\ ctx = "svc_done"
    /\ result.op = "predict"
    /\ raised = {"predict"}
    /\ ~result.success
    /\ ~result.escaped

\* ================================================ claims, GenSpec (the rest)
\* C37: last_used_model changes only in the step in which an invocation of
\* the retry loop returns a candidate, every such step leaves it equal to
\* the provider name returned with the candidate, and the step that ends an
\* invocation in exhaustion (like every other step) leaves it as it was.
C37_LastUsedModelFrame ==
    [][ /\ last_used_model' # last_used_model =>
              (pc # "returned" /\ pc' = "returned" /\ ret'.kind = "return")
        /\ (pc # "returned" /\ pc' = "returned") =>
              (ret'.kind = "return" /\ last_used_model' = ret'.source)
        /\ (pc # "raised" /\ pc' = "raised") =>
              (ret'.kind = "raise" /\ last_used_model' = last_used_model)
      ]_vars

\* an invocation ended in exhaustion after an earlier one had returned the
\* fallback's candidate
C37_Witness ==
    /\ pc = "raised"
    /\ ret = Raised(ExhaustedError)
    /\ log # << >>
    /\ last_used_model = gemini_model

\* ================================================ claims, Spec (frame effects)
\* C38: a select_target_column call that fails, for want of a dataset or
\* because the column is not in it, leaves target_column and problem_type
\* as they were, and no select_target_column call changes dynamic_model,
\* model_code, is_trained or training_summary.
C38_SelectTargetFrame ==
    [][ (ctx = "idle" /\ result'.op = "select_target_column") =>
          /\ ~result'.success =>
                /\ target_column' = target_column
                /\ problem_type' = problem_type
                /\ \/ df = None /\ result'.error = NoDataError
                   \/ df # None /\ result'.error.names # {}
                                /\ result'.error.names \cap Columns(df) = {}
          /\ result'.success => (df # None /\ target_column' \in Columns(df))
          /\ dynamic_model' = dynamic_model
          /\ model_code' = model_code
          /\ is_trained' = is_trained
          /\ training_summary' = training_summary
      ]_vars

\* an unknown column was refused while a trained model for y is held
C38_Witness ==
    /\ result.op = "select_target_column"
    /\ ~result.success
    /\ result.error.names = {"q"}
    /\ target_column = "y"
    /\ dynamic_model # NoInstance
    /\ is_trained

====
